---- MODULE Spec2Model ----
(***************************************************************************)
(* Model of CGAL::Rigid_mesh_collision_detection                           *)
(* (Polygon_mesh_processing/include/CGAL/Rigid_mesh_collision_detection.h) *)
(*                                                                         *)
(* The registry keeps parallel vectors (surface pointers, owned AABB       *)
(* trees, closedness flags and, when CGAL_CACHE_BOXES is set, cached boxes *)
(* with their invalid flags).  Positions are 0-based as in the C++ code;   *)
(* the element at position k of a vector v is v[k+1] here.                 *)
(*                                                                         *)
(* The geometry behind the external collaborators (surface, AABB tree,     *)
(* Side_of_triangle_mesh, Bbox_3) is a one-dimensional world: a surface is *)
(* a finite set of integer points, a rigid transformation is x -> s*x + t  *)
(* with s in {1,-1}, a closed surface bounds the open interval between its *)
(* extreme points.                                                         *)
(***************************************************************************)
EXTENDS Integers, Sequences, FiniteSets, TLC

\* ------------------------------------------------------------------ bounds
\* largest number of entries the registry is driven to
MaxMeshes == 3
\* largest number of trees ever allocated with new in one run
MaxTrees == 3

VARIABLES
  alive,                 \* TRUE from construction until the destructor ran
  CGAL_CACHE_BOXES,      \* the build option, fixed at construction
  m_triangle_mesh_ptrs,  \* std::vector<const TriangleMesh*>
  m_aabb_trees,          \* std::vector<Tree*>: addresses into heap
  m_is_closed,           \* std::vector<bool>
  m_bboxes_is_invalid,   \* boost::dynamic_bitset<>
  m_bboxes,              \* std::vector<Bbox_3>
  heap,                  \* every Tree ever allocated, by address 1..Len(heap)
  op,                    \* the last completed operation and its argument
  res,                   \* result of the last get_all_intersections
  res_incl,              \* result of the last get_all_intersections_and_inclusions
  side_of_calls,         \* the Side_of_tm objects the last query built and asked
  rounding_mode          \* the FPU rounding mode of the calling thread

vars == <<alive, CGAL_CACHE_BOXES, m_triangle_mesh_ptrs, m_aabb_trees, m_is_closed,
          m_bboxes_is_invalid, m_bboxes, heap, op, res, res_incl, side_of_calls,
          rounding_mode>>

\* the five parallel stores
stores == <<m_triangle_mesh_ptrs, m_aabb_trees, m_is_closed, m_bboxes_is_invalid, m_bboxes>>

\* --------------------------------------------------------- external world
\* The surfaces the caller owns.  verts lists the vertex coordinates in the
\* surface's local frame, in vertices() order; closed is what is_closed sees.
Surfaces == {"box", "cube", "sheet"}

Geometry(tm) ==
  CASE tm = "box"   -> [verts |-> <<0, 6>>, closed |-> TRUE]
    [] tm = "cube"  -> [verts |-> <<2, 3>>, closed |-> TRUE]
    [] tm = "sheet" -> [verts |-> <<1, 4>>, closed |-> FALSE]

is_closed(tm) == Geometry(tm).closed

\* Aff_transformation_3: x -> s*x + t
Identity == [s |-> 1, t |-> 0]
Transformations == {Identity, [s |-> 1, t |-> 2]}

Transform(T, x) == T.s * x + T.t

\* first vertex of the surface: *boost::begin(vertices(tm))
first_vertex(tm) == Geometry(tm).verts[1]

SetMin(S) == CHOOSE x \in S : \A y \in S : x <= y
SetMax(S) == CHOOSE x \in S : \A y \in S : x >= y

\* ------------------------------------------------------------------ trees
\* new Tree(faces(tm).begin(), faces(tm).end(), tm): the traits start with
\* the identity transformation
NewTree(tm) == [tm |-> tm, trans |-> Identity, deletes |-> 0]

\* what is left at an address after delete: no content, one more delete
NoMesh == "none"
DeleteTree(h, id) ==
  [h EXCEPT ![id] = [tm |-> NoMesh, trans |-> Identity, deletes |-> @.deletes + 1]]

\* the world-space points of a tree under its current transformation
TreePoints(t) ==
  {Transform(t.trans, Geometry(t.tm).verts[j]) : j \in DOMAIN Geometry(t.tm).verts}

\* Tree::do_intersect(other) with AABB_do_intersect_transform_traits
do_intersect(a, b) == TreePoints(a) \cap TreePoints(b) # {}

\* Bbox_3() and internal::get_tree_bbox(tree)
EmptyBbox == [lo |-> 99, hi |-> -99]
get_tree_bbox(t) == [lo |-> SetMin(TreePoints(t)), hi |-> SetMax(TreePoints(t))]
do_overlap(b1, b2) == b1.lo <= b2.hi /\ b2.lo <= b1.hi

\* Side_of_tm(tree)(q)
side_of(t, q) ==
  LET P == TreePoints(t) IN
  IF q \in P THEN "ON_BOUNDARY"
  ELSE IF SetMin(P) < q /\ q < SetMax(P) THEN "ON_BOUNDED_SIDE"
  ELSE "ON_UNBOUNDED_SIDE"

\* --------------------------------------------------------------- helpers
Size(v) == Len(v)
At(v, k) == v[k + 1]
Erase(v, k) == [j \in 1..(Len(v) - 1) |-> IF j < k + 1 THEN v[j] ELSE v[j + 1]]
PopBack(v) == SubSeq(v, 1, Len(v) - 1)
Fill(n, x) == [j \in 1..n |-> x]

MeshRanges == UNION {[1..n -> Surfaces] : n \in 0..MaxMeshes}

\* the record of a completed call: its name, its position argument, the
\* surfaces passed to it and what it returned to the caller through its
\* return type (<<>> for a void function; query results are in res, res_incl)
\* trans is the transformation passed (Identity when the call takes none);
\* mode_before is the rounding mode the caller had; entered, released and
\* unprotected summarise the Protector objects of the call (see below)
Call(name, id, meshes) ==
  [name |-> name, id |-> id, meshes |-> meshes, ret |-> <<>>, trans |-> Identity,
   mode_before |-> rounding_mode, entered |-> 0, released |-> 0, unprotected |-> 0]

\* ------------------------------------- Interval_nt_advanced::Protector
\* The rounding modes of the FPU; interval arithmetic needs FE_UPWARD.
RoundingModes == {"FE_TONEAREST", "FE_UPWARD"}

\* the thread's numeric state as a call starts: the current mode, the modes
\* saved by the Protector objects alive, and counters of Protector
\* constructions, destructions and of geometric evaluations (overlap tests,
\* box recomputations, containment probes) made outside FE_UPWARD
ProtectorState(mode) ==
  [mode |-> mode, saved |-> <<>>, entered |-> 0, released |-> 0, unprotected |-> 0]

\* Protector(): backup = FPU_get_and_set_cw(CGAL_FE_UPWARD)
Protector_enter(ps) ==
  [ps EXCEPT !.saved = Append(@, ps.mode), !.mode = "FE_UPWARD", !.entered = @ + 1]

\* ~Protector(): FPU_set_cw(backup), at the end of the enclosing scope
Protector_exit(ps) ==
  [ps EXCEPT !.mode = ps.saved[Len(ps.saved)],
             !.saved = SubSeq(@, 1, Len(@) - 1),
             !.released = @ + 1]

\* the geometric work of a query (update_bboxes, the loop with its overlap
\* tests and probes), done under the mode current at that point
Evaluate(ps) ==
  [ps EXCEPT !.unprotected = @ + (IF ps.mode = "FE_UPWARD" THEN 0 ELSE 1)]

\* get_all_intersections / get_all_intersections_and_inclusions: the
\* Protector is the first declaration of the body and lives to its end
\* variant: the Protector is declared after the work of the query
QueryProtector_late(ps) == Protector_exit(Protector_enter(Evaluate(ps)))

\* variant: the query declares no Protector
QueryProtector_none(ps) == Evaluate(ps)

QueryProtector(ps) == Protector_exit(Evaluate(Protector_enter(ps)))

\* set_transformation_and_...: a Protector of its own, then
\* set_transformation, then the query, which declares its Protector again
CompositionProtector(ps) == Protector_exit(QueryProtector(Protector_enter(ps)))

\* the call record of a query with the summary of its Protector objects
QueryCall(name, id, aff_trans, ps) ==
  [Call(name, id, <<>>) EXCEPT !.trans = aff_trans, !.entered = ps.entered,
                               !.released = ps.released, !.unprotected = ps.unprotected]

\* ------------------------------------------------------------ clear_trees
RECURSIVE DeleteAll(_, _)
DeleteAll(h, ids) ==
  IF ids = <<>> THEN h ELSE DeleteAll(DeleteTree(h, Head(ids)), Tail(ids))

\* heap after clear_trees(): every stored pointer is deleted
clear_trees == DeleteAll(heap, m_aabb_trees)

\* ------------------------------------------------------------------ init
\* m_is_closed.clear(); m_is_closed.resize(nb_meshes, false); and the loop
\* sets the flag of every closed surface
\* variant: resize without the clear, so flags of the previous set survive
InitClosed_keep(old, triangle_meshes) ==
  [j \in 1..Len(triangle_meshes) |->
     IF is_closed(triangle_meshes[j]) THEN TRUE ELSE (j <= Len(old) /\ old[j])]

\* (old is the vector before the call)
InitClosed(old, triangle_meshes) ==
  [j \in 1..Len(triangle_meshes) |-> IF is_closed(triangle_meshes[j]) THEN TRUE ELSE FALSE]

\* the stores after init(triangle_meshes), starting from heap h with the
\* old trees already deleted
InitStores(h, old_closed, triangle_meshes) ==
  LET nb_meshes == Len(triangle_meshes) IN
  [ptrs    |-> triangle_meshes,
   trees   |-> [j \in 1..nb_meshes |-> Len(h) + j],
   closed  |-> InitClosed(old_closed, triangle_meshes),
   invalid |-> IF CGAL_CACHE_BOXES THEN Fill(nb_meshes, TRUE) ELSE <<>>,
   bboxes  |-> IF CGAL_CACHE_BOXES THEN Fill(nb_meshes, EmptyBbox) ELSE <<>>,
   heap    |-> h \o [j \in 1..nb_meshes |-> NewTree(triangle_meshes[j])]]

init(triangle_meshes) ==
  /\ alive
  /\ Len(heap) + Len(triangle_meshes) <= MaxTrees
  /\ LET s == InitStores(clear_trees, m_is_closed, triangle_meshes) IN
       /\ m_triangle_mesh_ptrs' = s.ptrs
       /\ m_aabb_trees' = s.trees
       /\ m_is_closed' = s.closed
       /\ m_bboxes_is_invalid' = s.invalid
       /\ m_bboxes' = s.bboxes
       /\ heap' = s.heap
  /\ op' = Call("init", Len(triangle_meshes), triangle_meshes)
  /\ res' = <<>> /\ res_incl' = <<>> /\ side_of_calls' = {}
  /\ UNCHANGED <<alive, CGAL_CACHE_BOXES, rounding_mode>>

\* -------------------------------------------------------------- add_mesh
\* m_is_closed.push_back(is_closed(tm))
\* variant: the flag pushed is always false
AddClosed_false(tm) == Append(m_is_closed, FALSE)

AddClosed(tm) == Append(m_is_closed, is_closed(tm))

\* void add_mesh(const TriangleMesh& tm): nothing is returned
add_mesh_return == <<>>

add_mesh(tm) ==
  /\ alive
  /\ Len(m_triangle_mesh_ptrs) < MaxMeshes
  /\ Len(heap) < MaxTrees
  /\ m_is_closed' = AddClosed(tm)
  /\ m_triangle_mesh_ptrs' = Append(m_triangle_mesh_ptrs, tm)
  /\ heap' = Append(heap, NewTree(tm))
  /\ m_aabb_trees' = Append(m_aabb_trees, Len(heap) + 1)
  /\ IF CGAL_CACHE_BOXES
       THEN /\ m_bboxes' = Append(m_bboxes, EmptyBbox)
            /\ m_bboxes_is_invalid' = Append(m_bboxes_is_invalid, TRUE)
       ELSE UNCHANGED <<m_bboxes, m_bboxes_is_invalid>>
  /\ op' = [Call("add_mesh", 0, <<tm>>) EXCEPT !.ret = add_mesh_return]
  /\ res' = <<>> /\ res_incl' = <<>> /\ side_of_calls' = {}
  /\ UNCHANGED <<alive, CGAL_CACHE_BOXES, rounding_mode>>

\* ----------------------------------------------------------- remove_mesh
\* variant: the delete is forgotten
RemoveHeap_leak(mesh_id) == heap

\* delete m_aabb_trees[mesh_id]
RemoveHeap(mesh_id) == DeleteTree(heap, At(m_aabb_trees, mesh_id))

\* variant: the last flag is dropped instead of the one at mesh_id
RemoveClosed_pop(mesh_id) == PopBack(m_is_closed)

\* m_is_closed.erase(m_is_closed.begin()+mesh_id)
RemoveClosed(mesh_id) == Erase(m_is_closed, mesh_id)

\* variant: the pop_back is forgotten
RemoveBboxes_keep == m_bboxes

\* m_bboxes.pop_back(): the last box goes, whatever position is removed
RemoveBboxes == PopBack(m_bboxes)

\* variant: the flags are all set before the range test returns
RemoveIgnoredFlags_set == Fill(Len(m_bboxes_is_invalid), TRUE)

\* the flags after the early return on an out-of-range mesh_id: untouched
RemoveIgnoredFlags == m_bboxes_is_invalid

\* variant: the flags are resized without being set
RemoveFlags_resize(mesh_id) == PopBack(m_bboxes_is_invalid)

\* m_bboxes_is_invalid.set(); m_bboxes_is_invalid.resize(m_aabb_trees.size())
RemoveFlags(mesh_id) == Fill(Size(Erase(m_aabb_trees, mesh_id)), TRUE)

remove_mesh(mesh_id) ==
  /\ alive
  /\ IF mesh_id >= Size(m_triangle_mesh_ptrs)
       THEN /\ m_bboxes_is_invalid' = RemoveIgnoredFlags
            /\ UNCHANGED <<m_triangle_mesh_ptrs, m_aabb_trees, m_is_closed, m_bboxes, heap>>
       ELSE /\ m_triangle_mesh_ptrs' = Erase(m_triangle_mesh_ptrs, mesh_id)
            /\ heap' = RemoveHeap(mesh_id)
            /\ m_aabb_trees' = Erase(m_aabb_trees, mesh_id)
            /\ m_is_closed' = RemoveClosed(mesh_id)
            /\ IF CGAL_CACHE_BOXES
                 THEN /\ m_bboxes' = RemoveBboxes
                      /\ m_bboxes_is_invalid' = RemoveFlags(mesh_id)
                 ELSE UNCHANGED <<m_bboxes, m_bboxes_is_invalid>>
  /\ op' = Call("remove_mesh", mesh_id, <<>>)
  /\ res' = <<>> /\ res_incl' = <<>> /\ side_of_calls' = {}
  /\ UNCHANGED <<alive, CGAL_CACHE_BOXES, rounding_mode>>

\* ---------------------------------------------------- set_transformation
\* variant: the transformation is given to every tree of the registry
SetTransformationHeap_all(mesh_id, aff_trans) ==
  [a \in DOMAIN heap |->
     IF \E j \in DOMAIN m_aabb_trees : m_aabb_trees[j] = a
       THEN [heap[a] EXCEPT !.trans = aff_trans]
       ELSE heap[a]]

\* variant: the transformation is composed with the one the tree carries
SetTransformationHeap_compose(mesh_id, aff_trans) ==
  [heap EXCEPT ![At(m_aabb_trees, mesh_id)].trans =
     [s |-> aff_trans.s * @.s, t |-> aff_trans.s * @.t + aff_trans.t]]

\* the heap and the invalid flags after set_transformation(mesh_id, aff_trans)
SetTransformationHeap(mesh_id, aff_trans) ==
  [heap EXCEPT ![At(m_aabb_trees, mesh_id)].trans = aff_trans]

\* variant: every cached box is marked invalid
SetTransformationInvalid_all(mesh_id) ==
  IF CGAL_CACHE_BOXES
    THEN Fill(Len(m_bboxes_is_invalid), TRUE)
    ELSE m_bboxes_is_invalid

\* variant: the cached box of mesh_id is not marked invalid
SetTransformationInvalid_forget(mesh_id) == m_bboxes_is_invalid

SetTransformationInvalid(mesh_id) ==
  IF CGAL_CACHE_BOXES
    THEN [m_bboxes_is_invalid EXCEPT ![mesh_id + 1] = TRUE]
    ELSE m_bboxes_is_invalid

\* unchecked in the code: mesh_id out of range is undefined behaviour and is
\* not driven
set_transformation(mesh_id, aff_trans) ==
  /\ alive
  /\ mesh_id < Size(m_aabb_trees)
  /\ heap' = SetTransformationHeap(mesh_id, aff_trans)
  /\ m_bboxes_is_invalid' = SetTransformationInvalid(mesh_id)
  /\ op' = [Call("set_transformation", mesh_id, <<>>) EXCEPT !.trans = aff_trans]
  /\ res' = <<>> /\ res_incl' = <<>> /\ side_of_calls' = {}
  /\ UNCHANGED <<alive, CGAL_CACHE_BOXES, m_triangle_mesh_ptrs, m_aabb_trees,
                 m_is_closed, m_bboxes, rounding_mode>>

\* --------------------------------------------------------- update_bboxes
\* m_bboxes after update_bboxes() on heap h with flags invalid: every box
\* whose flag is set is recomputed from its tree.  The loop of the source
\* starts at m_bboxes.find_first(), a member only the dynamic_bitset
\* m_bboxes_is_invalid has; the walk modelled is the one over the set bits of
\* m_bboxes_is_invalid, which the loop's end test and step name.
update_bboxes(h, invalid) ==
  [j \in 1..Len(m_bboxes) |->
     IF invalid[j] THEN get_tree_bbox(h[m_aabb_trees[j]]) ELSE m_bboxes[j]]

\* variant: the flags are left as they are
ResetFlags_keep(invalid) == invalid

\* m_bboxes_is_invalid.reset()
ResetFlags(invalid) == [j \in 1..Len(invalid) |-> FALSE]

\* variant: the query forgets update_bboxes()
QueryBboxes_stale(h, invalid) == m_bboxes

\* the boxes a query works with: refreshed when the cache is compiled in
QueryBboxes(h, invalid) == IF CGAL_CACHE_BOXES THEN update_bboxes(h, invalid) ELSE m_bboxes

\* the box pre-filter of both query loops: TRUE when position k is skipped
BoxesDisjoint(boxes, k, mesh_id) ==
  CGAL_CACHE_BOXES /\ ~do_overlap(At(boxes, k), At(boxes, mesh_id))

\* -------------------------------------------------- get_all_intersections
\* variant: the loop only reports candidates after mesh_id
RECURSIVE IntersectionsLoop_later(_, _, _, _)
IntersectionsLoop_later(h, boxes, mesh_id, k) ==
  IF k >= Size(m_aabb_trees) THEN <<>>
  ELSE IF k <= mesh_id THEN IntersectionsLoop_later(h, boxes, mesh_id, k + 1)
  ELSE IF BoxesDisjoint(boxes, k, mesh_id) THEN IntersectionsLoop_later(h, boxes, mesh_id, k + 1)
  ELSE IF do_intersect(h[At(m_aabb_trees, k)], h[At(m_aabb_trees, mesh_id)])
    THEN <<k>> \o IntersectionsLoop_later(h, boxes, mesh_id, k + 1)
    ELSE IntersectionsLoop_later(h, boxes, mesh_id, k + 1)

\* the loop of get_all_intersections from position k on, over heap h
RECURSIVE IntersectionsLoop(_, _, _, _)
IntersectionsLoop(h, boxes, mesh_id, k) ==
  IF k >= Size(m_aabb_trees) THEN <<>>
  ELSE IF k = mesh_id THEN IntersectionsLoop(h, boxes, mesh_id, k + 1)
  ELSE IF BoxesDisjoint(boxes, k, mesh_id) THEN IntersectionsLoop(h, boxes, mesh_id, k + 1)
  ELSE IF do_intersect(h[At(m_aabb_trees, k)], h[At(m_aabb_trees, mesh_id)])
    THEN <<k>> \o IntersectionsLoop(h, boxes, mesh_id, k + 1)
    ELSE IntersectionsLoop(h, boxes, mesh_id, k + 1)

get_all_intersections(mesh_id) ==
  /\ alive
  /\ mesh_id < Size(m_aabb_trees)
  /\ m_bboxes' = QueryBboxes(heap, m_bboxes_is_invalid)
  /\ m_bboxes_is_invalid' = ResetFlags(m_bboxes_is_invalid)
  /\ res' = IntersectionsLoop(heap, m_bboxes', mesh_id, 0)
  /\ LET ps == QueryProtector(ProtectorState(rounding_mode)) IN
       /\ rounding_mode' = ps.mode
       /\ op' = QueryCall("get_all_intersections", mesh_id, Identity, ps)
  /\ res_incl' = <<>> /\ side_of_calls' = {}
  /\ UNCHANGED <<alive, CGAL_CACHE_BOXES, m_triangle_mesh_ptrs, m_aabb_trees,
                 m_is_closed, heap>>

set_transformation_and_get_all_intersections(mesh_id, aff_trans) ==
  /\ alive
  /\ mesh_id < Size(m_aabb_trees)
  /\ heap' = SetTransformationHeap(mesh_id, aff_trans)
  /\ m_bboxes' = QueryBboxes(heap', SetTransformationInvalid(mesh_id))
  /\ m_bboxes_is_invalid' = ResetFlags(m_bboxes_is_invalid)
  /\ res' = IntersectionsLoop(heap', m_bboxes', mesh_id, 0)
  /\ LET ps == CompositionProtector(ProtectorState(rounding_mode)) IN
       /\ rounding_mode' = ps.mode
       /\ op' = QueryCall("set_transformation_and_get_all_intersections", mesh_id, aff_trans, ps)
  /\ res_incl' = <<>> /\ side_of_calls' = {}
  /\ UNCHANGED <<alive, CGAL_CACHE_BOXES, m_triangle_mesh_ptrs, m_aabb_trees, m_is_closed>>

\* ----------------------------------- get_all_intersections_and_inclusions
\* one Side_of_tm probe: the first vertex of the surface at position probe,
\* moved by the transformation of its tree, against the tree at container
Inside(h, container, probe) ==
  LET q == first_vertex(At(m_triangle_mesh_ptrs, probe)) IN
  side_of(h[At(m_aabb_trees, container)],
          Transform(h[At(m_aabb_trees, probe)].trans, q)) = "ON_BOUNDED_SIDE"

\* variant: the probes run whether or not the trees intersect
InclusionsBody_noelse(h, mesh_id, k) ==
  LET hit == IF do_intersect(h[At(m_aabb_trees, k)], h[At(m_aabb_trees, mesh_id)])
               THEN << <<k, FALSE>> >> ELSE <<>> IN
  IF At(m_is_closed, mesh_id) /\ Inside(h, mesh_id, k)
    THEN [res |-> hit \o << <<k, TRUE>> >>, calls |-> {mesh_id}]
  ELSE IF At(m_is_closed, k)
    THEN [res   |-> hit \o (IF Inside(h, k, mesh_id) THEN << <<k, TRUE>> >> ELSE <<>>),
          calls |-> (IF At(m_is_closed, mesh_id) THEN {mesh_id} ELSE {}) \cup {k}]
  ELSE [res |-> hit, calls |-> IF At(m_is_closed, mesh_id) THEN {mesh_id} ELSE {}]

\* variant: the second probe is not guarded by m_is_closed[k]
InclusionsBody_noguard(h, mesh_id, k) ==
  IF do_intersect(h[At(m_aabb_trees, k)], h[At(m_aabb_trees, mesh_id)])
    THEN [res |-> << <<k, FALSE>> >>, calls |-> {}]
  ELSE IF At(m_is_closed, mesh_id) /\ Inside(h, mesh_id, k)
    THEN [res |-> << <<k, TRUE>> >>, calls |-> {mesh_id}]
  ELSE [res   |-> IF Inside(h, k, mesh_id) THEN << <<k, TRUE>> >> ELSE <<>>,
        calls |-> (IF At(m_is_closed, mesh_id) THEN {mesh_id} ELSE {}) \cup {k}]

\* variant: only the probe with mesh_id as the container is tried
InclusionsBody_firstonly(h, mesh_id, k) ==
  IF do_intersect(h[At(m_aabb_trees, k)], h[At(m_aabb_trees, mesh_id)])
    THEN [res |-> << <<k, FALSE>> >>, calls |-> {}]
  ELSE IF At(m_is_closed, mesh_id)
    THEN [res   |-> IF Inside(h, mesh_id, k) THEN << <<k, TRUE>> >> ELSE <<>>,
          calls |-> {mesh_id}]
  ELSE [res |-> <<>>, calls |-> {}]

\* variant: the reverse probe is tried only when mesh_id is not closed
InclusionsBody_elseif(h, mesh_id, k) ==
  IF do_intersect(h[At(m_aabb_trees, k)], h[At(m_aabb_trees, mesh_id)])
    THEN [res |-> << <<k, FALSE>> >>, calls |-> {}]
  ELSE IF At(m_is_closed, mesh_id)
    THEN [res   |-> IF Inside(h, mesh_id, k) THEN << <<k, TRUE>> >> ELSE <<>>,
          calls |-> {mesh_id}]
  ELSE IF At(m_is_closed, k)
    THEN [res   |-> IF Inside(h, k, mesh_id) THEN << <<k, TRUE>> >> ELSE <<>>,
          calls |-> {k}]
  ELSE [res |-> <<>>, calls |-> {}]

\* the body of the loop for one candidate k that passed the filters:
\* the pairs pushed and the positions a Side_of_tm was built on
InclusionsBody(h, mesh_id, k) ==
  IF do_intersect(h[At(m_aabb_trees, k)], h[At(m_aabb_trees, mesh_id)])
    THEN [res |-> << <<k, FALSE>> >>, calls |-> {}]
  ELSE IF At(m_is_closed, mesh_id) /\ Inside(h, mesh_id, k)
    THEN [res |-> << <<k, TRUE>> >>, calls |-> {mesh_id}]
  ELSE IF At(m_is_closed, k)
    THEN [res   |-> IF Inside(h, k, mesh_id) THEN << <<k, TRUE>> >> ELSE <<>>,
          calls |-> (IF At(m_is_closed, mesh_id) THEN {mesh_id} ELSE {}) \cup {k}]
  ELSE [res |-> <<>>, calls |-> IF At(m_is_closed, mesh_id) THEN {mesh_id} ELSE {}]

RECURSIVE InclusionsLoop(_, _, _, _)
InclusionsLoop(h, boxes, mesh_id, k) ==
  IF k >= Size(m_aabb_trees) THEN [res |-> <<>>, calls |-> {}]
  ELSE IF k = mesh_id THEN InclusionsLoop(h, boxes, mesh_id, k + 1)
  ELSE IF BoxesDisjoint(boxes, k, mesh_id) THEN InclusionsLoop(h, boxes, mesh_id, k + 1)
  ELSE LET b == InclusionsBody(h, mesh_id, k)
           r == InclusionsLoop(h, boxes, mesh_id, k + 1) IN
       [res |-> b.res \o r.res, calls |-> b.calls \cup r.calls]

get_all_intersections_and_inclusions(mesh_id) ==
  /\ alive
  /\ mesh_id < Size(m_aabb_trees)
  /\ m_bboxes' = QueryBboxes(heap, m_bboxes_is_invalid)
  /\ m_bboxes_is_invalid' = ResetFlags(m_bboxes_is_invalid)
  /\ LET r == InclusionsLoop(heap, m_bboxes', mesh_id, 0) IN
       res_incl' = r.res /\ side_of_calls' = r.calls
  /\ LET ps == QueryProtector(ProtectorState(rounding_mode)) IN
       /\ rounding_mode' = ps.mode
       /\ op' = QueryCall("get_all_intersections_and_inclusions", mesh_id, Identity, ps)
  /\ res' = <<>>
  /\ UNCHANGED <<alive, CGAL_CACHE_BOXES, m_triangle_mesh_ptrs, m_aabb_trees,
                 m_is_closed, heap>>

set_transformation_and_get_all_intersections_and_inclusions(mesh_id, aff_trans) ==
  /\ alive
  /\ mesh_id < Size(m_aabb_trees)
  /\ heap' = SetTransformationHeap(mesh_id, aff_trans)
  /\ m_bboxes' = QueryBboxes(heap', SetTransformationInvalid(mesh_id))
  /\ m_bboxes_is_invalid' = ResetFlags(m_bboxes_is_invalid)
  /\ LET r == InclusionsLoop(heap', m_bboxes', mesh_id, 0) IN
       res_incl' = r.res /\ side_of_calls' = r.calls
  /\ LET ps == CompositionProtector(ProtectorState(rounding_mode)) IN
       /\ rounding_mode' = ps.mode
       /\ op' = QueryCall("set_transformation_and_get_all_intersections_and_inclusions",
                          mesh_id, aff_trans, ps)
  /\ res' = <<>>
  /\ UNCHANGED <<alive, CGAL_CACHE_BOXES, m_triangle_mesh_ptrs, m_aabb_trees, m_is_closed>>

\* ------------------------------------------------------------ destructor
\* ~Rigid_mesh_collision_detection() { clear_trees(); } and then the
\* members are destroyed
destructor ==
  /\ alive
  /\ alive' = FALSE
  /\ heap' = clear_trees
  /\ m_aabb_trees' = <<>>
  /\ m_triangle_mesh_ptrs' = <<>>
  /\ m_is_closed' = <<>>
  /\ m_bboxes_is_invalid' = <<>>
  /\ m_bboxes' = <<>>
  /\ op' = Call("destructor", 0, <<>>)
  /\ res' = <<>> /\ res_incl' = <<>> /\ side_of_calls' = {}
  /\ UNCHANGED <<CGAL_CACHE_BOXES, rounding_mode>>

\* ----------------------------------------------------------- construction
\* Rigid_mesh_collision_detection(triangle_meshes) { init(triangle_meshes); }
Init ==
  /\ alive = TRUE
  /\ CGAL_CACHE_BOXES \in BOOLEAN
  /\ rounding_mode \in RoundingModes
  /\ \E triangle_meshes \in MeshRanges :
       /\ Len(triangle_meshes) <= MaxTrees
       /\ LET s == InitStores(<<>>, <<>>, triangle_meshes) IN
            /\ m_triangle_mesh_ptrs = s.ptrs
            /\ m_aabb_trees = s.trees
            /\ m_is_closed = s.closed
            /\ m_bboxes_is_invalid = s.invalid
            /\ m_bboxes = s.bboxes
            /\ heap = s.heap
       /\ op = Call("constructor", Len(triangle_meshes), triangle_meshes)
  /\ res = <<>> /\ res_incl = <<>> /\ side_of_calls = {}

Positions == 0..(MaxMeshes - 1)

Next ==
  \/ \E triangle_meshes \in MeshRanges : init(triangle_meshes)
  \/ \E tm \in Surfaces : add_mesh(tm)
  \/ \E mesh_id \in 0..MaxMeshes : remove_mesh(mesh_id)
  \/ \E mesh_id \in Positions, aff_trans \in Transformations :
       set_transformation(mesh_id, aff_trans)
  \/ \E mesh_id \in Positions : get_all_intersections(mesh_id)
  \/ \E mesh_id \in Positions, aff_trans \in Transformations :
       set_transformation_and_get_all_intersections(mesh_id, aff_trans)
  \/ \E mesh_id \in Positions : get_all_intersections_and_inclusions(mesh_id)
  \/ \E mesh_id \in Positions, aff_trans \in Transformations :
       set_transformation_and_get_all_intersections_and_inclusions(mesh_id, aff_trans)
  \/ destructor

Spec == Init /\ [][Next]_vars

\* ===================================================== queries as functions
\* the positions registered in the current state
Registered == 0..(Size(m_aabb_trees) - 1)

\* what get_all_intersections(position) returns in the current state
intersections(position) ==
  IntersectionsLoop(heap, QueryBboxes(heap, m_bboxes_is_invalid), position, 0)

\* what get_all_intersections_and_inclusions(position) returns, with the
\* Side_of_tm objects it builds on the way
inclusions_run(position) ==
  InclusionsLoop(heap, QueryBboxes(heap, m_bboxes_is_invalid), position, 0)

intersections_and_inclusions(position) == inclusions_run(position).res

\* the entry registered at position p: surface, owned tree (address and
\* content, the transformation included) and closedness flag
EntryAt(p) ==
  [surface |-> At(m_triangle_mesh_ptrs, p),
   tree    |-> At(m_aabb_trees, p),
   content |-> heap[At(m_aabb_trees, p)],
   closed  |-> At(m_is_closed, p)]

Elems(s) == {s[j] : j \in DOMAIN s}

\* the world-space points of the surface registered at position p
SurfacePoints(p) ==
  LET verts == Geometry(At(m_triangle_mesh_ptrs, p)).verts IN
  {Transform(heap[At(m_aabb_trees, p)].trans, verts[j]) : j \in DOMAIN verts}

\* a query result renumbered for the removal of position i
Shifted(k, i) == IF k > i THEN k - 1 ELSE k
Renumber(s, i) ==
  LET Keep(k) == k # i
      kept == SelectSeq(s, Keep) IN
  [j \in DOMAIN kept |-> Shifted(kept[j], i)]
RenumberPairs(s, i) ==
  LET Keep(pr) == pr[1] # i
      kept == SelectSeq(s, Keep) IN
  [j \in DOMAIN kept |-> <<Shifted(kept[j][1], i), kept[j][2]>>]

\* ==================================================================== C1
\* C1: in every reachable state the parallel stores have the same length:
\* surface pointers, trees and closedness flags, and with the box cache
\* compiled in also the cached boxes and the invalid flags.
C1_ParallelStores ==
  /\ Len(m_aabb_trees) = Len(m_triangle_mesh_ptrs)
  /\ Len(m_is_closed) = Len(m_triangle_mesh_ptrs)
  /\ CGAL_CACHE_BOXES =>
       /\ Len(m_bboxes) = Len(m_triangle_mesh_ptrs)
       /\ Len(m_bboxes_is_invalid) = Len(m_triangle_mesh_ptrs)

C1_Witness ==
  /\ CGAL_CACHE_BOXES
  /\ op.name = "remove_mesh"
  /\ op.id = 0
  /\ Len(m_bboxes) = 2
  /\ Len(heap) = 3

\* ==================================================================== C2
\* C2: a remove_mesh(i) step with i in range removes exactly entry i: the
\* length drops by one, every entry before i stays, every entry after i
\* moves down by one with the same surface, tree, transformation and flag,
\* and both queries answer for the surviving entries as before, renumbered
\* and without the removed position.
C2_Step ==
  \A i \in 0..MaxMeshes :
  (op'.name = "remove_mesh" /\ op'.id = i /\ i < Size(m_triangle_mesh_ptrs)) =>
    LET n == Size(m_triangle_mesh_ptrs) IN
    /\ Size(m_triangle_mesh_ptrs') = n - 1
    /\ Size(m_aabb_trees') = n - 1
    /\ Size(m_is_closed') = n - 1
    /\ \A p \in 0..(i - 1) : EntryAt(p)' = EntryAt(p)
    /\ \A p \in (i + 1)..(n - 1) : EntryAt(p - 1)' = EntryAt(p)
    /\ \A p \in (0..(n - 1)) \ {i} :
         /\ intersections(Shifted(p, i))' = Renumber(intersections(p), i)
         /\ intersections_and_inclusions(Shifted(p, i))'
              = RenumberPairs(intersections_and_inclusions(p), i)

\* C2: every remove_mesh(i) step with i in range removes exactly entry i and
\* shifts the later entries down, as C2_Step states.
C2_RemoveShifts == [][C2_Step]_vars

\* the middle one of three entries was removed; the entry that moved from
\* position 2 to position 1 carries a transformation set before
C2_Witness ==
  /\ op.name = "remove_mesh"
  /\ op.id = 1
  /\ m_aabb_trees = <<1, 3>>
  /\ heap[2].deletes = 1
  /\ heap[3].trans # Identity
  /\ intersections(1) # <<>>

\* ==================================================================== C3
\* C3: a remove_mesh(i) step with i >= the number of entries changes no
\* store (surfaces, trees, flags, boxes, invalid flags), no tree content
\* and releases no tree.
C3_Step ==
  (op'.name = "remove_mesh" /\ op'.id >= Size(m_triangle_mesh_ptrs)) =>
    /\ UNCHANGED stores
    /\ heap' = heap

\* C3: every remove_mesh(i) step with i out of range is a no-op on the
\* stores and on the trees, as C3_Step states.
C3_RemoveOutOfRange == [][C3_Step]_vars

\* an in-range removal of position i leaves at least i entries, so an
\* argument above the length is one that was ignored; a box is still valid
C3_Witness ==
  /\ op.name = "remove_mesh"
  /\ op.id > Size(m_triangle_mesh_ptrs)
  /\ Size(m_triangle_mesh_ptrs) >= 1
  /\ CGAL_CACHE_BOXES
  /\ \E j \in DOMAIN m_bboxes_is_invalid : ~m_bboxes_is_invalid[j]
  /\ \A id \in DOMAIN heap : heap[id].deletes = 0

\* ==================================================================== C4
\* the effect of add_mesh on the stores: one entry appended at the end,
\* with a new tree under the identity transformation and the closedness of
\* the surface, every existing entry kept at its position
C4_Appends ==
  \A n \in 0..MaxMeshes, tm \in Surfaces :
  (n = Size(m_triangle_mesh_ptrs) /\ op'.meshes = <<tm>>) =>
  /\ Size(m_triangle_mesh_ptrs') = n + 1
  /\ Size(m_aabb_trees') = n + 1
  /\ Size(m_is_closed') = n + 1
  /\ \A p \in 0..(n - 1) : EntryAt(p)' = EntryAt(p)
  /\ At(m_aabb_trees', n) \notin DOMAIN heap
  /\ EntryAt(n)' = [surface |-> tm,
                    tree    |-> At(m_aabb_trees', n),
                    content |-> [tm |-> tm, trans |-> Identity, deletes |-> 0],
                    closed  |-> Geometry(tm).closed]
  /\ \A id \in DOMAIN heap : heap'[id] = heap[id]

\* C4 as stated: add_mesh appends one entry (as above) and returns the
\* position of the new entry, the number of entries before the call.
C4_Step_Original ==
  (op'.name = "add_mesh") =>
    /\ C4_Appends
    /\ op'.ret = <<Size(m_triangle_mesh_ptrs)>>

\* C4 (as stated): every add_mesh step appends one entry and returns its
\* position.
C4_AddReturnsPosition == [][C4_Step_Original]_vars

\* C4 amended: add_mesh appends one entry (as above) at the position equal
\* to the number of entries before the call, and returns nothing.
C4_Step ==
  (op'.name = "add_mesh") =>
    /\ C4_Appends
    /\ op'.ret = <<>>

\* C4 (amended): every add_mesh step appends one entry at the position equal
\* to the former length and returns nothing.
C4_AddAppends == [][C4_Step]_vars

C4_Witness ==
  /\ op.name = "add_mesh"
  /\ Size(m_triangle_mesh_ptrs) = 3
  /\ heap[At(m_aabb_trees, 0)].trans # Identity
  /\ At(m_is_closed, 2)
  /\ ~At(m_is_closed, 1)

\* ==================================================================== C5
\* C5: an init(surfaces) step from any state leaves exactly one entry per
\* given surface, in the order given, each with a tree built by this call
\* under the identity transformation and the closedness of its surface;
\* every tree of the previous set is released, and with the cache compiled
\* in every box is empty and marked invalid.
C5_Step ==
  (op'.name = "init") =>
    LET triangle_meshes == op'.meshes
        nb == Len(triangle_meshes) IN
    /\ m_triangle_mesh_ptrs' = triangle_meshes
    /\ Size(m_aabb_trees') = nb
    /\ Size(m_is_closed') = nb
    /\ \A p \in 0..(nb - 1) :
         /\ At(m_aabb_trees', p) \notin DOMAIN heap
         /\ \A q \in 0..(nb - 1) : At(m_aabb_trees', q) = At(m_aabb_trees', p) => q = p
         /\ heap'[At(m_aabb_trees', p)]
              = [tm |-> triangle_meshes[p + 1], trans |-> Identity, deletes |-> 0]
         /\ At(m_is_closed', p) = Geometry(triangle_meshes[p + 1]).closed
    /\ \A id \in DOMAIN heap : heap'[id].deletes >= 1 /\ heap'[id].tm = NoMesh
    /\ IF CGAL_CACHE_BOXES
         THEN /\ m_bboxes' = [j \in 1..nb |-> EmptyBbox]
              /\ m_bboxes_is_invalid' = [j \in 1..nb |-> TRUE]
         ELSE m_bboxes' = <<>> /\ m_bboxes_is_invalid' = <<>>

\* C5: every init step replaces the whole registered set, as C5_Step states.
C5_InitReplaces == [][C5_Step]_vars

\* init replaced a set whose first entry was closed by a set whose first
\* entry is open, with the cache compiled in
C5_Witness ==
  /\ op.name = "init"
  /\ CGAL_CACHE_BOXES
  /\ Size(m_triangle_mesh_ptrs) = 2
  /\ Len(heap) = 3
  /\ heap[1].deletes = 1
  /\ ~At(m_is_closed, 0)
  /\ At(m_is_closed, 1)

\* ==================================================================== C6
\* no tree is deleted twice; the trees not yet deleted are exactly the ones
\* the registry points to, each from one position only (so no position
\* refers to a released tree, and after the destructor, when no position is
\* left, every tree is released)
C6_Owned ==
  /\ \A id \in DOMAIN heap : heap[id].deletes <= 1
  /\ {id \in DOMAIN heap : heap[id].deletes = 0} = Elems(m_aabb_trees)
  /\ \A p, q \in Registered : At(m_aabb_trees, p) = At(m_aabb_trees, q) => p = q
  /\ ~alive => \A id \in DOMAIN heap : heap[id].deletes = 1

\* a tree is released only by remove_mesh, for the position removed, by
\* init or by the destructor
C6_Step ==
  \A id \in DOMAIN heap :
    (heap[id].deletes = 0 /\ heap'[id].deletes > 0) =>
      \/ op'.name \in {"init", "destructor"}
      \/ /\ op'.name = "remove_mesh"
         /\ op'.id \in Registered
         /\ At(m_aabb_trees, op'.id) = id

\* C6: over any run of construction, init, add_mesh, remove_mesh and
\* destruction every tree is released exactly once, only on removal of its
\* entry, on init or on destruction, and no position refers to a released
\* tree.
C6_ReleasedOnce == []C6_Owned /\ [][C6_Step]_vars

\* destroyed after three trees were built
C6_Witness ==
  /\ ~alive
  /\ Len(heap) >= 3
  /\ \A id \in DOMAIN heap : heap[id].deletes = 1

\* ==================================================================== C7
\* C7: in every reachable state, for registered positions i # j, j is in
\* intersections(i) exactly when i is in intersections(j).
C7_Symmetry ==
  \A i, j \in Registered :
    i # j => (j \in Elems(intersections(i)) <=> i \in Elems(intersections(j)))

\* the last position was queried and intersects an earlier one
C7_Witness ==
  /\ op.name = "get_all_intersections"
  /\ op.id = 2
  /\ 0 \in Elems(res)
  /\ res = intersections(2)
  /\ 2 \in Elems(intersections(0))

\* ==================================================================== C8
\* C8: for every registered position i, intersections(i) is strictly
\* ascending, holds registered positions only, never i, and holds k # i
\* exactly when the transformed surfaces at k and i share a point.
C8_Intersections ==
  \A i \in Registered :
    LET r == intersections(i) IN
    /\ \A a, b \in DOMAIN r : a < b => r[a] < r[b]
    /\ Elems(r) \subseteq Registered \ {i}
    /\ \A k \in Registered \ {i} :
         k \in Elems(r) <=> SurfacePoints(k) \cap SurfacePoints(i) # {}

\* the answer of a query with the cache compiled in: both neighbours of the
\* middle position
C8_Witness ==
  /\ op.name = "get_all_intersections"
  /\ CGAL_CACHE_BOXES
  /\ op.id = 1
  /\ res = <<0, 2>>

\* ==================================================================== C9
\* C9: in every reachable state, for every registered i, a position listed
\* with flag true by intersections_and_inclusions(i) is not in
\* intersections(i).
C9_NestedDisjoint ==
  \A i \in Registered :
    \A pr \in Elems(intersections_and_inclusions(i)) :
      pr[2] => pr[1] \notin Elems(intersections(i))

\* a query answered with one intersecting and one nested position
C9_Witness ==
  /\ op.name = "get_all_intersections_and_inclusions"
  /\ res_incl = intersections_and_inclusions(op.id)
  /\ \E a, b \in DOMAIN res_incl : res_incl[a][2] /\ ~res_incl[b][2]

\* =================================================================== C10
\* C10: whenever intersections_and_inclusions(i) lists (j, true), entry i
\* or entry j has its closedness flag set, and every Side_of_tm a query
\* builds is built on the tree of an entry whose flag is set.
C10_NestingNeedsClosed ==
  /\ \A i \in Registered :
       /\ \A pr \in Elems(inclusions_run(i).res) :
            pr[2] => (At(m_is_closed, i) \/ At(m_is_closed, pr[1]))
       /\ \A c \in inclusions_run(i).calls : At(m_is_closed, c)
  /\ \A c \in side_of_calls : c \in Registered /\ At(m_is_closed, c)

\* an open surface was queried and is reported nested in a closed one
C10_Witness ==
  /\ op.name = "get_all_intersections_and_inclusions"
  /\ ~At(m_is_closed, op.id)
  /\ \E a \in DOMAIN res_incl : res_incl[a][2] /\ res_incl[a][1] \in side_of_calls
  /\ \E k \in Registered \ {op.id} : ~At(m_is_closed, k)

\* =================================================================== C11
\* the transformation the entry at position p carries
TransformationAt(p) == heap[At(m_aabb_trees, p)].trans

\* C11 as stated: set_transformation(i, identity) leaves intersections(p)
\* unchanged for every position p, whatever transformation entry i carried
\* before the call.
C11_Step_Original ==
  \A i \in Positions :
    (op'.name = "set_transformation" /\ op'.id = i /\ op'.trans = Identity)
      => \A p \in Registered : intersections(p)' = intersections(p)

C11_IdentityKeepsResults == [][C11_Step_Original]_vars

\* C11 amended: set_transformation(i, identity) on an entry that carries the
\* identity transformation leaves intersections(p) unchanged for every
\* position p (the call replaces the transformation of entry i, it does not
\* compose with it).
C11_Step ==
  \A i \in Positions :
    (/\ op'.name = "set_transformation" /\ op'.id = i /\ op'.trans = Identity
     /\ i < Size(m_aabb_trees)
     /\ TransformationAt(i) = Identity)
      => \A p \in Registered : intersections(p)' = intersections(p)

C11_IdentityOnIdentity == [][C11_Step]_vars

\* identity was just set on an entry while another entry is moved and some
\* query result is not empty
C11_Witness ==
  /\ op.name = "set_transformation" /\ op.trans = Identity
  /\ \E q \in Registered : q # op.id /\ TransformationAt(q) # Identity
  /\ \E p \in Registered : intersections(p) # <<>>

\* =================================================================== C12
\* the loop of get_all_intersections as compiled without CGAL_CACHE_BOXES:
\* no box test stands before do_intersect
RECURSIVE IntersectionsUnfiltered(_, _)
IntersectionsUnfiltered(mesh_id, k) ==
  IF k >= Size(m_aabb_trees) THEN <<>>
  ELSE IF k = mesh_id THEN IntersectionsUnfiltered(mesh_id, k + 1)
  ELSE IF do_intersect(heap[At(m_aabb_trees, k)], heap[At(m_aabb_trees, mesh_id)])
    THEN <<k>> \o IntersectionsUnfiltered(mesh_id, k + 1)
    ELSE IntersectionsUnfiltered(mesh_id, k + 1)

\* the loop of get_all_intersections_and_inclusions as compiled without
\* CGAL_CACHE_BOXES
RECURSIVE InclusionsUnfiltered(_, _)
InclusionsUnfiltered(mesh_id, k) ==
  IF k >= Size(m_aabb_trees) THEN <<>>
  ELSE IF k = mesh_id THEN InclusionsUnfiltered(mesh_id, k + 1)
  ELSE InclusionsBody(heap, mesh_id, k).res \o InclusionsUnfiltered(mesh_id, k + 1)

IntersectionQueries ==
  {"get_all_intersections", "set_transformation_and_get_all_intersections"}
InclusionQueries ==
  {"get_all_intersections_and_inclusions",
   "set_transformation_and_get_all_intersections_and_inclusions"}

PlainQueries == {"get_all_intersections", "get_all_intersections_and_inclusions"}
CompositionQueries ==
  {"set_transformation_and_get_all_intersections",
   "set_transformation_and_get_all_intersections_and_inclusions"}

\* C13 as stated: every call of one of the four query functions enters the
\* protected mode exactly once.
C13_EnteredOnce ==
  op.name \in PlainQueries \cup CompositionQueries => op.entered = 1

\* C13 amended: a call of get_all_intersections or of
\* get_all_intersections_and_inclusions enters the protected mode exactly
\* once; a call of one of the two set_transformation_and_... compositions
\* enters it exactly twice, once itself and once more, nested, in the query
\* it calls.
C13_Entries ==
  /\ op.name \in PlainQueries => op.entered = 1
  /\ op.name \in CompositionQueries => op.entered = 2

\* a composition has just returned after two entries
C13_Witness ==
  /\ op.name \in CompositionQueries
  /\ op.entered = 2
  /\ Size(m_aabb_trees) >= 2

\* =================================================================== C14
\* C14: every call leaves the rounding mode as the caller had it, so
\* set_transformation, add_mesh, remove_mesh and init never change it and a
\* query has restored it on return; a query made none of its overlap tests,
\* box recomputations and probes outside the protected mode, and released
\* the mode as many times as it entered it.
C14_ProtectedAndRestored ==
  /\ rounding_mode = op.mode_before
  /\ op.unprotected = 0
  /\ op.released = op.entered
  /\ op.name \in PlainQueries \cup CompositionQueries => op.entered >= 1

\* a composition called under round-to-nearest has returned a non-empty
\* result after two nested entries and two releases
C14_Witness ==
  /\ op.name \in CompositionQueries
  /\ op.mode_before = "FE_TONEAREST" /\ rounding_mode = "FE_TONEAREST"
  /\ op.entered = 2 /\ op.released = 2
  /\ (res # <<>> \/ res_incl # <<>>)

\* =================================================================== C15
\* C15 as stated: a call of get_all_intersections or of
\* get_all_intersections_and_inclusions writes none of the stores of the
\* registry, with the box cache compiled in or not.
C15_Step_Original ==
  op'.name \in PlainQueries => UNCHANGED <<stores, heap>>

C15_QueriesReadOnly == [][C15_Step_Original]_vars

\* C15 amended: a call of get_all_intersections or of
\* get_all_intersections_and_inclusions never writes the surfaces, the
\* trees (their transformations included) or the closedness flags; without
\* the box cache it writes no store at all; with the box cache it refreshes
\* the boxes and clears the invalid flags, so a query that starts with a
\* box marked invalid changes m_bboxes_is_invalid, a store every other query
\* reads and writes.
C15_Step ==
  op'.name \in PlainQueries =>
    /\ UNCHANGED <<m_triangle_mesh_ptrs, m_aabb_trees, m_is_closed, heap>>
    /\ ~CGAL_CACHE_BOXES => UNCHANGED <<m_bboxes, m_bboxes_is_invalid>>
    /\ CGAL_CACHE_BOXES =>
         /\ m_bboxes' = update_bboxes(heap, m_bboxes_is_invalid)
         /\ (\E j \in DOMAIN m_bboxes_is_invalid : m_bboxes_is_invalid[j])
              => m_bboxes_is_invalid' # m_bboxes_is_invalid

C15_QueriesWriteOnlyCache == [][C15_Step]_vars

\* with the cache on, a query over two or more entries has just run and
\* left the boxes refreshed and no flag set
C15_Witness ==
  /\ CGAL_CACHE_BOXES
  /\ op.name \in PlainQueries
  /\ Size(m_aabb_trees) >= 2
  /\ \A j \in DOMAIN m_bboxes_is_invalid : ~m_bboxes_is_invalid[j]
  /\ \A j \in DOMAIN m_bboxes : m_bboxes[j] # EmptyBbox

\* =================================================================== C16
\* C16: right after set_transformation(i, T), calling set_transformation(i, T)
\* again would change nothing: the trees, the invalid flags and every other
\* store are what they are already, and so are the results of both queries
\* for every position.
C16_SetTwiceIsSetOnce ==
  op.name = "set_transformation" =>
    /\ SetTransformationHeap(op.id, op.trans) = heap
    /\ SetTransformationInvalid(op.id) = m_bboxes_is_invalid
    /\ \A p \in Registered :
         /\ IntersectionsLoop(SetTransformationHeap(op.id, op.trans),
                              QueryBboxes(SetTransformationHeap(op.id, op.trans),
                                          SetTransformationInvalid(op.id)), p, 0)
              = intersections(p)
         /\ InclusionsLoop(SetTransformationHeap(op.id, op.trans),
                           QueryBboxes(SetTransformationHeap(op.id, op.trans),
                                       SetTransformationInvalid(op.id)), p, 0).res
              = intersections_and_inclusions(p)

\* a non-identity transformation has just been set on an entry that
\* intersects another one
C16_Witness ==
  /\ op.name = "set_transformation" /\ op.trans # Identity
  /\ Size(m_aabb_trees) >= 2
  /\ intersections(op.id) # <<>>

\* =================================================================== C17
\* the world-space box of the surface registered at position p under the
\* transformation its tree carries
WorldBbox(p) == [lo |-> SetMin(SurfacePoints(p)), hi |-> SetMax(SurfacePoints(p))]

C18_Step ==
  \A i \in Positions :
    (op'.name = "set_transformation" /\ op'.id = i) =>
      /\ UNCHANGED <<m_triangle_mesh_ptrs, m_aabb_trees, m_is_closed, m_bboxes>>
      /\ DOMAIN heap' = DOMAIN heap
      /\ \A a \in DOMAIN heap :
           /\ heap'[a].tm = heap[a].tm
           /\ heap'[a].deletes = heap[a].deletes
           /\ a # At(m_aabb_trees, i) => heap'[a].trans = heap[a].trans
      /\ heap'[At(m_aabb_trees, i)].trans = op'.trans
      /\ DOMAIN m_bboxes_is_invalid' = DOMAIN m_bboxes_is_invalid
      /\ \A j \in DOMAIN m_bboxes_is_invalid :
           m_bboxes_is_invalid'[j] = (m_bboxes_is_invalid[j] \/ j = i + 1)

C18_SetTransformationFrame == [][C18_Step]_vars

\* with the cache on, a transformation was set on one entry while the box of
\* another entry, carrying another transformation, stays valid
C18_Witness ==
  /\ CGAL_CACHE_BOXES
  /\ op.name = "set_transformation"
  /\ At(m_bboxes_is_invalid, op.id)
  /\ \E q \in Registered :
       /\ q # op.id
       /\ ~At(m_bboxes_is_invalid, q)
       /\ TransformationAt(q) # op.trans

\* =================================================================== C19
\* the probe vertex of entry p: the first vertex of its surface, moved by
\* the transformation of its tree
ProbeVertex(p) == Transform(TransformationAt(p), first_vertex(At(m_triangle_mesh_ptrs, p)))

\* x lies strictly inside the surface registered at position p
StrictlyInside(x, p) ==
  /\ x \notin SurfacePoints(p)
  /\ SetMin(SurfacePoints(p)) < x
  /\ x < SetMax(SurfacePoints(p))

\* one of the two entries is closed and holds the probe vertex of the other
NestedPair(i, k) ==
  \/ At(m_is_closed, i) /\ StrictlyInside(ProbeVertex(k), i)
  \/ At(m_is_closed, k) /\ StrictlyInside(ProbeVertex(i), k)

FlagFalse(pr) == ~pr[2]
FalsePositions(r) ==
  [j \in DOMAIN SelectSeq(r, FlagFalse) |-> SelectSeq(r, FlagFalse)[j][1]]

\* C19: for every registered i, intersections_and_inclusions(i) lists
\* positions other than i in strictly ascending order (so each at most
\* once); the positions with flag false are, in order, intersections(i); a
\* position k not in intersections(i) is listed, with flag true, exactly
\* when i is closed and holds the probe vertex of k or k is closed and holds
\* the probe vertex of i.
C19_InclusionsCharacterised ==
  \A i \in Registered :
    LET r == intersections_and_inclusions(i) IN
    /\ \A a, b \in DOMAIN r : a < b => r[a][1] < r[b][1]
    /\ \A a \in DOMAIN r : r[a][1] \in Registered \ {i}
    /\ FalsePositions(r) = intersections(i)
    /\ \A k \in Registered \ {i} :
         k \notin Elems(intersections(i)) =>
           /\ <<k, FALSE>> \notin Elems(r)
           /\ <<k, TRUE>> \in Elems(r) <=> NestedPair(i, k)

\* a query has reported one entry as intersecting and another as nested,
\* the nesting found by the reverse probe
C19_Witness ==
  /\ op.name = "get_all_intersections_and_inclusions"
  /\ \E a, b \in DOMAIN res_incl : res_incl[a][2] /\ ~res_incl[b][2]
  /\ \E k \in side_of_calls : k # op.id
  /\ res_incl = intersections_and_inclusions(op.id)

\* =================================================================== C20
\* C20: in every reachable state and for all registered positions i # j,
\* intersections_and_inclusions(i) lists j with flag true exactly when
\* intersections_and_inclusions(j) lists i with flag true.
C20_NestingSymmetric ==
  \A i, j \in Registered :
    i # j =>
      (<<j, TRUE>> \in Elems(intersections_and_inclusions(i))
         <=> <<i, TRUE>> \in Elems(intersections_and_inclusions(j)))

\* an open entry has just been queried and reports the closed entry around
\* it as nested, as the closed entry reports the open one
C20_Witness ==
  /\ op.name \in InclusionQueries
  /\ op.id \in Registered
  /\ ~At(m_is_closed, op.id)
  /\ \E j \in Registered :
       /\ j # op.id
       /\ <<j, TRUE>> \in Elems(res_incl)
       /\ <<op.id, TRUE>> \in Elems(intersections_and_inclusions(j))

====
